---- MODULE Spec2Model ----
(***************************************************************************)
(* Model of xknx.devices.device.Device: the update-callback list and its   *)
(* asyncio.gather fan-out (after_update), the sequential sync over the     *)
(* enumerated remote values, and the routing of incoming telegrams.        *)
(*                                                                         *)
(* The asyncio event loop is modelled by its FIFO queue of ready handles   *)
(* (`ready`): a task step, the done-callback gather attaches to each child *)
(* task, and the wake-up of the coroutine awaiting gather's outer future.  *)
(* A callback is a callable returning a coroutine: the call itself may     *)
(* raise, and the coroutine may suspend, return or raise at each step.     *)
(*                                                                         *)
(* Further parts: the transcoder registry looked up by string id and by    *)
(* (main, sub); the synchronous queries and fan-outs over the remote       *)
(* values; the background-task hooks; and a second device, for equality.   *)
(***************************************************************************)
EXTENDS Integers, Sequences, FiniteSets

\* ------------------------------------------------------------------ bounds
MaxCbs == 2            \* longest callback list
MaxRemoteValues == 2   \* remote values a concrete device enumerates
MaxOtherCbs == 3       \* longest callback list of the second device

Callbacks == {"cb1", "cb2"}
GroupAddresses == {1}
Bytes == {0, 1}
NoValue == -1
NoCallback == "None"
Names == {"light", "switch"}

\* Telegram payload variants: the three group services and any other APCI.
Payloads ==
    [kind : {"GroupValueWrite", "GroupValueResponse"}, value : Bytes]
        \cup [kind : {"GroupValueRead", "Other"}, value : {NoValue}]
Telegrams == [address : GroupAddresses, payload : Payloads]
NoTelegram == [address |-> 0, payload |-> [kind |-> "none", value |-> NoValue]]

VARIABLES
    overrides,           \* handlers the concrete device class overrides
    nrv,                 \* number of remote values _iter_remote_values yields
    rvAddrs,             \* the group addresses each remote value claims
    value,               \* state owned by the concrete device, per group address
    device_updated_cbs,  \* self.device_updated_cbs
    net,                 \* per callback: register calls minus the unregister
                         \* calls made while it was in the list
    pc,                  \* the calling coroutine: "idle", "gather" (awaiting the
                         \* fan-out in after_update), "read" (awaiting read_state)
    snapshot,            \* the callback list the running/last fan-out iterated
    raisedAt,            \* index of the callable whose call raised, 0 if none
    tasks,               \* the tasks of the running/last fan-out, in list order
    ready,               \* the event loop's FIFO of ready handles
    outer,               \* gather's outer future of the running/last fan-out
    log,                 \* records logger.exception wrote in the running/last fan-out
    result,              \* how the last after_update ended
    pendingAtReturn,     \* tasks of the fan-out unfinished when after_update ended
    reads,               \* read_state calls of the running/last sync, in order
    inflight,            \* remote values whose read_state has not returned
    syncArg,             \* wait_for_result passed to the running/last sync
    syncResult,          \* how the last sync ended
    lastTg,              \* telegram of the last process call
    calls,               \* handlers the last process call invoked, in order
    lastCall,            \* the last call of the constructor or of a synchronous
                         \* query or fan-out, and what it returned or called
    bgTasks,             \* background tasks of the device that are running
    other,               \* a second device: its attributes
    otherNet,            \* net of the second device
    byValueType,         \* the last registry lookup by string id and its result
    byNumericId          \* the last registry lookup by (main, sub) and its result

vars == <<overrides, nrv, value, device_updated_cbs, pc, snapshot, raisedAt,
          tasks, ready, outer, log, result, pendingAtReturn, reads, inflight,
          syncArg, syncResult, lastTg, calls, byValueType, byNumericId,
          rvAddrs, net, lastCall, bgTasks, other, otherNet>>

cbVars == <<device_updated_cbs, net>>
fanVars == <<pc, snapshot, raisedAt, tasks, ready, outer, log, result,
             pendingAtReturn>>
syncVars == <<reads, inflight, syncArg, syncResult>>
procVars == <<value, lastTg, calls, lastCall>>
classVars == <<overrides, nrv, rvAddrs>>
regVars == <<byValueType, byNumericId>>
otherVars == <<other, otherNet>>
\* What the asynchronous operations and the callback registration of the
\* device leave alone.
auxVars == <<regVars, bgTasks, otherVars>>

\* ------------------------------------------------------------ list helpers
Range(s) == {s[i] : i \in 1..Len(s)}

FirstIndex(s, x) == CHOOSE i \in 1..Len(s) : s[i] = x /\ \A j \in 1..(i - 1) : s[j] # x

RemoveAt(s, i) == SubSeq(s, 1, i - 1) \o SubSeq(s, i + 1, Len(s))

Count(s, x) == Cardinality({i \in 1..Len(s) : s[i] = x})

\* list.remove(x): drops the first occurrence of x.
ListRemove(s, x) == RemoveAt(s, FirstIndex(s, x))

\* ------------------------------------------------- callback registration
\* The record of one call: the operation, its callback or address argument,
\* the value it returned and the calls it made on the remote values.
Call(op, cb, addr, returned, trace) ==
    [op |-> op, cb |-> cb, addr |-> addr, returned |-> returned, trace |-> trace]

NoCall == Call("none", NoCallback, 0, FALSE, <<>>)

\* The record is dropped when the caller goes on to another operation.
ClearCall == lastCall' = NoCall

\* The list after register_device_updated_cb(cb).
register_device_updated_cb(cbs, cb) == Append(cbs, cb)

\* A faulty unregister that drops the last occurrence of cb.
unregister_last_occurrence(cbs, cb) ==
    IF cb \in Range(cbs)
    THEN RemoveAt(cbs, CHOOSE i \in 1..Len(cbs) :
                        cbs[i] = cb /\ \A j \in (i + 1)..Len(cbs) : cbs[j] # cb)
    ELSE cbs

\* A faulty unregister that drops every occurrence of cb.
unregister_all_occurrences(cbs, cb) == SelectSeq(cbs, LAMBDA x : x # cb)

\* The list after unregister_device_updated_cb(cb).
unregister_device_updated_cb(cbs, cb) ==
    IF cb \in Range(cbs) THEN ListRemove(cbs, cb) ELSE cbs

Register(cb) ==
    /\ Len(device_updated_cbs) < MaxCbs
    /\ device_updated_cbs' = register_device_updated_cb(device_updated_cbs, cb)
    /\ net' = [net EXCEPT ![cb] = @ + 1]
    /\ ClearCall
    /\ UNCHANGED <<fanVars, syncVars, value, lastTg, calls, classVars, auxVars>>

Unregister(cb) ==
    /\ device_updated_cbs' = unregister_device_updated_cb(device_updated_cbs, cb)
    /\ net' = [net EXCEPT ![cb] = IF cb \in Range(device_updated_cbs) THEN @ - 1 ELSE @]
    /\ ClearCall
    /\ UNCHANGED <<fanVars, syncVars, value, lastTg, calls, classVars, auxVars>>

\* ------------------------------------------------------------ construction
\* A faulty constructor that drops the callback it is given.
init_without_callback(device_updated_cb) == <<>>

\* The callback list __init__ leaves: empty, then the given callback, if
\* any, registered.
__init__(device_updated_cb) ==
    IF device_updated_cb # NoCallback
    THEN register_device_updated_cb(<<>>, device_updated_cb)
    ELSE <<>>

\* The attributes __init__ gives the device besides the callback list.
xknx == "xknx"
name == "light"

\* No second device has been constructed.
NoDevice == [xknx |-> "none", name |-> "none", device_updated_cbs |-> <<>>]

\* ---------------------------------------------------- transcoder registry
\* An absent sub number, and an absent unit.
Absent == NoValue
NoUnit == "None"

Transcoder(vt, cls, main, sub, unit) ==
    [value_type |-> vt, cls |-> cls, main |-> main, sub |-> sub, unit |-> unit]

\* Registered transcoders, in registration order (a sample of the table of
\* test_dpt_lookup: every main number with its generic entry and some subs).
RegistryTable ==
    << Transcoder("1byte_unsigned", "DPTValue1ByteUnsigned", 5, Absent, NoUnit),
       Transcoder("2byte_float", "DPT2ByteFloat", 9, Absent, NoUnit),
       Transcoder("2byte_unsigned", "DPT2ByteUnsigned", 7, Absent, NoUnit),
       Transcoder("4byte_float", "DPT4ByteFloat", 14, Absent, NoUnit),
       Transcoder("acceleration", "DPTAcceleration", 14, 0, "m/s²"),
       Transcoder("acceleration_angular", "DPTAccelerationAngular", 14, 1, "rad/s²"),
       Transcoder("amplitude", "DPTAmplitude", 14, 5, NoUnit),
       Transcoder("angle", "DPTAngle", 5, 3, "°"),
       Transcoder("humidity", "DPTHumidity", 9, 7, "%"),
       Transcoder("percent", "DPTScaling", 5, 1, "%"),
       Transcoder("temperature", "DPTTemperature", 9, 1, "°C"),
       Transcoder("temperature_difference_2byte", "DPTTemperatureDifference2Byte", 9, 2, "K"),
       Transcoder("time_period_sec", "DPTTimePeriodSec", 7, 5, "s"),
       Transcoder("wind_speed_ms", "DPTWsp", 9, 5, "m/s") >>

Registered == Range(RegistryTable)

\* The result of a lookup that matches nothing.
NotFound == Transcoder("", "NotFound", NoValue, Absent, NoUnit)

\* String ids and (main, sub) pairs looked up: the registered ones and
\* others.
ValueTypeQueries == {t.value_type : t \in Registered} \cup {"no_such_type", "Temperature"}
MainQueries == {t.main : t \in Registered} \cup {6}
SubQueries == {t.sub : t \in Registered} \cup {4}

\* The first registered transcoder among the matching entries (given by
\* their positions), NotFound if none matches.
FirstMatch(positions) ==
    IF positions = {} THEN NotFound
    ELSE RegistryTable[CHOOSE i \in positions : \A j \in positions : i <= j]

Positions == 1..Len(RegistryTable)

\* Lookup by string id: exact match.
parse_transcoder(value_type) ==
    FirstMatch({i \in Positions : RegistryTable[i].value_type = value_type})

\* A faulty lookup that takes the first transcoder of the main number.
transcoder_by_main_only(dpt_main, dpt_sub) ==
    FirstMatch({i \in Positions : RegistryTable[i].main = dpt_main})

\* A faulty lookup that falls back to the generic transcoder of the main
\* number when the pair is not registered.
transcoder_by_dpt_with_fallback(dpt_main, dpt_sub) ==
    LET exact == {i \in Positions :
                    RegistryTable[i].main = dpt_main /\ RegistryTable[i].sub = dpt_sub}
        generic == {i \in Positions :
                    RegistryTable[i].main = dpt_main /\ RegistryTable[i].sub = Absent}
    IN  IF exact # {} THEN FirstMatch(exact) ELSE FirstMatch(generic)

\* Lookup by numeric id: exact match of the pair, an absent sub included.
transcoder_by_dpt(dpt_main, dpt_sub) ==
    FirstMatch({i \in Positions :
                    RegistryTable[i].main = dpt_main /\ RegistryTable[i].sub = dpt_sub})

NoLookup == [query |-> <<>>, result |-> NotFound]

ResolveByValueType(value_type) ==
    /\ byValueType' = [query |-> <<value_type>>, result |-> parse_transcoder(value_type)]
    /\ UNCHANGED <<byNumericId, bgTasks, otherVars, cbVars, fanVars, syncVars,
                   procVars, classVars>>

ResolveByNumericId(dpt_main, dpt_sub) ==
    /\ byNumericId' = [query |-> <<dpt_main, dpt_sub>>,
                       result |-> transcoder_by_dpt(dpt_main, dpt_sub)]
    /\ UNCHANGED <<byValueType, bgTasks, otherVars, cbVars, fanVars, syncVars,
                   procVars, classVars>>

Init ==
    /\ overrides \in {{}, {"process_group_write"}}
    /\ nrv \in 0..MaxRemoteValues
    /\ rvAddrs \in [1..nrv -> SUBSET GroupAddresses]
    /\ value = [a \in GroupAddresses |-> NoValue]
    /\ \E device_updated_cb \in {NoCallback} \cup Callbacks :
        /\ device_updated_cbs = __init__(device_updated_cb)
        /\ lastCall = Call("__init__", device_updated_cb, 0, FALSE, <<>>)
    /\ net = [cb \in Callbacks |-> Count(device_updated_cbs, cb)]
    /\ bgTasks = {}
    /\ other = NoDevice
    /\ otherNet = [cb \in Callbacks |-> 0]
    /\ pc = "idle"
    /\ snapshot = <<>>
    /\ raisedAt = 0
    /\ tasks = <<>>
    /\ ready = <<>>
    /\ outer = [st |-> "none", nfuts |-> 0, nfinished |-> 0]
    /\ log = 0
    /\ result = "none"
    /\ pendingAtReturn = 0
    /\ reads = <<>>
    /\ inflight = {}
    /\ syncArg = FALSE
    /\ syncResult = "none"
    /\ lastTg = NoTelegram
    /\ calls = <<>>
    /\ byValueType = NoLookup
    /\ byNumericId = NoLookup

\* ------------------------------------------------------------ after_update
\* Histories of the last sync and of the last process call are dropped
\* when the caller starts another operation.
ClearSync ==
    /\ reads' = <<>>
    /\ inflight' = {}
    /\ syncArg' = FALSE
    /\ syncResult' = "none"

ClearProc ==
    /\ lastTg' = NoTelegram
    /\ calls' = <<>>
    /\ ClearCall

Finished(t) == t.st \in {"done", "failed"}

\* One task per coroutine object handed to gather, in list order.
NewTasks(cbs) == [i \in 1..Len(cbs) |-> [cb |-> cbs[i], st |-> "ready"]]

\* ensure_future schedules the first step of each new task, in list order.
StepHandles(n) == [i \in 1..n |-> [k |-> "step", t |-> i]]

\* Tasks of the fan-out that have not finished.
Unfinished == {t \in 1..Len(tasks) : ~Finished(tasks[t])}

\* Tasks of the fan-out whose coroutine raised.
FailedTasks == {t \in 1..Len(tasks) : tasks[t].st = "failed"}

\* A faulty handler that lets the exception through.
ExceptHandlerReraise(exc) == [result |-> "raised", logged |-> 0]

\* `except Exception:` around the awaited gather: the exception is logged
\* once with logger.exception and after_update returns normally.
ExceptHandler(exc) == [result |-> "returned", logged |-> 1]

\* gather(*aws) without return_exceptions: the state of the outer future
\* after the done-callback of one child ran (failed: the child raised).
GatherDone(o, failed) ==
    IF o.st # "pending" THEN [o EXCEPT !.nfinished = @ + 1]
    ELSE IF failed THEN [o EXCEPT !.nfinished = @ + 1, !.st = "exception"]
    ELSE IF o.nfinished + 1 = o.nfuts THEN [o EXCEPT !.nfinished = @ + 1, !.st = "result"]
    ELSE [o EXCEPT !.nfinished = @ + 1]

\* The body of after_update up to its first suspension: the list
\* comprehension calls every callback (the call of the r-th may raise), gather
\* wraps the coroutines in tasks, and the coroutine awaits the outer future.
\* Tasks an earlier fan-out left running stay in the event loop, but their
\* outer future is done and nothing of the device reads them: they are no
\* longer tracked.
AfterUpdateBegin ==
    LET cbs == device_updated_cbs
        n == Len(device_updated_cbs)
    IN
    /\ snapshot' = cbs
    /\ pendingAtReturn' = 0
    /\ \E r \in 0..n :
        /\ raisedAt' = r
        /\ IF r > 0
           THEN LET h == ExceptHandler("Exception") IN
                /\ result' = h.result
                /\ log' = h.logged
                /\ pc' = "idle"
                /\ outer' = [st |-> "none", nfuts |-> 0, nfinished |-> 0]
                /\ tasks' = <<>>
                /\ ready' = <<>>
           ELSE IF n = 0
           THEN /\ result' = "returned"
                /\ log' = 0
                /\ pc' = "idle"
                /\ outer' = [st |-> "result", nfuts |-> 0, nfinished |-> 0]
                /\ tasks' = <<>>
                /\ ready' = <<>>
           ELSE /\ tasks' = NewTasks(cbs)
                /\ ready' = StepHandles(n)
                /\ outer' = [st |-> "pending", nfuts |-> n, nfinished |-> 0]
                /\ result' = "pending"
                /\ log' = 0
                /\ pc' = "gather"

\* The callbacks the list comprehension of the running/last fan-out has
\* called, in order: all of the list, or those up to the one whose call
\* raised.
Invoked == IF raisedAt > 0 THEN SubSeq(snapshot, 1, raisedAt) ELSE snapshot

AfterUpdate ==
    /\ pc = "idle"
    /\ AfterUpdateBegin
    /\ ClearSync
    /\ ClearProc
    /\ UNCHANGED <<cbVars, value, classVars, auxVars>>

HeadIs(kind) == ready # <<>> /\ Head(ready).k = kind

\* A task step that runs the callback coroutine to its end.
TaskReturns ==
    /\ HeadIs("step")
    /\ LET t == Head(ready).t IN
        /\ tasks' = [tasks EXCEPT ![t].st = "done"]
        /\ ready' = Append(Tail(ready), [k |-> "donecb", t |-> t])
    /\ UNCHANGED <<pc, snapshot, raisedAt, outer, log, result, pendingAtReturn,
                   cbVars, syncVars, procVars, classVars, auxVars>>

\* A task step in which the callback coroutine raises.
TaskRaises ==
    /\ HeadIs("step")
    /\ LET t == Head(ready).t IN
        /\ tasks' = [tasks EXCEPT ![t].st = "failed"]
        /\ ready' = Append(Tail(ready), [k |-> "donecb", t |-> t])
    /\ UNCHANGED <<pc, snapshot, raisedAt, outer, log, result, pendingAtReturn,
                   cbVars, syncVars, procVars, classVars, auxVars>>

\* A task step that ends with the callback coroutine awaiting I/O.
TaskSuspends ==
    /\ HeadIs("step")
    /\ LET t == Head(ready).t IN
        /\ tasks' = [tasks EXCEPT ![t].st = "suspended"]
        /\ ready' = Tail(ready)
    /\ UNCHANGED <<pc, snapshot, raisedAt, outer, log, result, pendingAtReturn,
                   cbVars, syncVars, procVars, classVars, auxVars>>

\* The I/O a suspended callback waits for completes: its next step is scheduled.
IoComplete(t) ==
    /\ tasks[t].st = "suspended"
    /\ tasks' = [tasks EXCEPT ![t].st = "ready"]
    /\ ready' = Append(ready, [k |-> "step", t |-> t])
    /\ UNCHANGED <<pc, snapshot, raisedAt, outer, log, result, pendingAtReturn,
                   cbVars, syncVars, procVars, classVars, auxVars>>

\* gather's done-callback of one child task.
GatherDoneCallback ==
    /\ HeadIs("donecb")
    /\ LET o == GatherDone(outer, tasks[Head(ready).t].st = "failed") IN
        /\ outer' = o
        /\ ready' = IF outer.st = "pending" /\ o.st # "pending"
                    THEN Append(Tail(ready), [k |-> "wake", t |-> 0])
                    ELSE Tail(ready)
    /\ UNCHANGED <<pc, snapshot, raisedAt, tasks, log, result, pendingAtReturn,
                   cbVars, syncVars, procVars, classVars, auxVars>>

\* after_update resumes from `await asyncio.gather(...)` and ends.
AfterUpdateResume ==
    /\ HeadIs("wake")
    /\ pc = "gather"
    /\ ready' = Tail(ready)
    /\ pc' = "idle"
    /\ pendingAtReturn' = Cardinality(Unfinished)
    /\ IF outer.st = "exception"
       THEN LET h == ExceptHandler("Exception") IN
            /\ result' = h.result
            /\ log' = log + h.logged
       ELSE /\ result' = "returned"
            /\ UNCHANGED log
    /\ UNCHANGED <<snapshot, raisedAt, tasks, outer,
                   cbVars, syncVars, procVars, classVars, auxVars>>

\* -------------------------------------------------------------------- sync
\* sync(wait_for_result): the loop reaches its first read_state, if any.
Sync(wait_for_result) ==
    /\ pc = "idle"
    /\ syncArg' = wait_for_result
    /\ IF nrv = 0
       THEN /\ reads' = <<>>
            /\ inflight' = {}
            /\ syncResult' = "returned"
            /\ pc' = "idle"
       ELSE /\ reads' = <<[rv |-> 1, wait_for_result |-> wait_for_result]>>
            /\ inflight' = {1}
            /\ syncResult' = "pending"
            /\ pc' = "read"
    /\ ClearProc
    /\ UNCHANGED <<snapshot, raisedAt, tasks, ready, outer, log, result,
                   pendingAtReturn, cbVars, value, classVars, auxVars>>

\* The awaited read_state returns: the loop goes on to the next remote
\* value, or sync returns.
ReadStateReturns ==
    /\ pc = "read"
    /\ LET i == Len(reads) IN
       IF i < nrv
       THEN /\ reads' = Append(reads, [rv |-> i + 1, wait_for_result |-> syncArg])
            /\ inflight' = {i + 1}
            /\ UNCHANGED <<syncResult, pc>>
       ELSE /\ inflight' = {}
            /\ syncResult' = "returned"
            /\ pc' = "idle"
            /\ UNCHANGED reads
    /\ UNCHANGED <<syncArg, snapshot, raisedAt, tasks, ready, outer, log, result,
                   pendingAtReturn, cbVars, procVars, classVars, auxVars>>

\* The awaited read_state raises: nothing in sync catches it, the loop is
\* left and the exception reaches the caller of sync.
ReadStateRaises ==
    /\ pc = "read"
    /\ inflight' = {}
    /\ syncResult' = "raised"
    /\ pc' = "idle"
    /\ UNCHANGED <<reads, syncArg, snapshot, raisedAt, tasks, ready, outer, log,
                   result, pendingAtReturn, cbVars, procVars, classVars, auxVars>>

\* ----------------------------------------------------------------- process
\* A faulty group-read handler that forwards to the group-write handler.
process_group_read_forwarding(telegram) ==
    <<"process_group_read", "process_group_write">>

\* A faulty group-response handler that does not forward.
process_group_response_dropped(telegram) == <<"process_group_response">>

\* A faulty router that hands a response to the group-read handler.
process_misrouted(telegram) ==
    IF telegram.payload.kind = "GroupValueWrite" THEN <<"process_group_write">>
    ELSE IF telegram.payload.kind \in {"GroupValueResponse", "GroupValueRead"}
    THEN <<"process_group_read">>
    ELSE <<>>

\* The handlers a call invokes, in order, as the base class defines them.
process_group_read(telegram) == <<"process_group_read">>

process_group_write(telegram) == <<"process_group_write">>

process_group_response(telegram) ==
    <<"process_group_response">> \o process_group_write(telegram)

process(telegram) ==
    IF telegram.payload.kind = "GroupValueWrite" THEN process_group_write(telegram)
    ELSE IF telegram.payload.kind = "GroupValueResponse" THEN process_group_response(telegram)
    ELSE IF telegram.payload.kind = "GroupValueRead" THEN process_group_read(telegram)
    ELSE <<>>

\* Whether the concrete device's own handler runs in a call: the class
\* overrides process_group_write and the call reaches that handler.
OverrideRuns(telegram) ==
    /\ "process_group_write" \in overrides
    /\ "process_group_write" \in Range(process(telegram))

\* The concrete device's process_group_write: the payload becomes the state
\* of the addressed attribute (and after_update follows).
GroupWriteOverride(v, telegram) ==
    [v EXCEPT ![telegram.address] = telegram.payload.value]

\* What a process call does to the device: its state afterwards and
\* whether it runs after_update.
ProcessOutcome(telegram) ==
    IF OverrideRuns(telegram)
    THEN [value |-> GroupWriteOverride(value, telegram), notify |-> TRUE]
    ELSE [value |-> value, notify |-> FALSE]

\* A faulty dispatcher that does not await the handler: the next telegram
\* is handled while the handler of the previous one is still running.
ProcessNotAwaited(telegram) ==
    /\ pc \in {"idle", "gather"}
    /\ lastTg' = telegram
    /\ calls' = process(telegram)
    /\ value' = ProcessOutcome(telegram).value
    /\ IF ProcessOutcome(telegram).notify
       THEN AfterUpdateBegin
       ELSE UNCHANGED fanVars
    /\ ClearSync
    /\ ClearCall
    /\ UNCHANGED <<cbVars, classVars, auxVars>>

\* process(telegram), each handler awaited: the call returns when the handler
\* has, and the caller delivers the next telegram after that.
Process(telegram) ==
    /\ pc = "idle"
    /\ lastTg' = telegram
    /\ calls' = process(telegram)
    /\ value' = ProcessOutcome(telegram).value
    /\ IF ProcessOutcome(telegram).notify
       THEN AfterUpdateBegin
       ELSE UNCHANGED fanVars
    /\ ClearSync
    /\ ClearCall
    /\ UNCHANGED <<cbVars, classVars, auxVars>>

\* ------------------------------------- queries and fan-out, remote values
\* Addresses asked for: those remote values may claim, and one none claims.
AddressQueries == GroupAddresses \cup {2}

\* RemoteValue.has_group_address of the i-th enumerated remote value.
remote_value_has_group_address(i, group_address) == group_address \in rvAddrs[i]

\* any(...) over the generator: the remote values are asked in enumeration
\* order, from the i-th on, until one claims the address.
RECURSIVE AnyFrom(_, _)
AnyFrom(i, group_address) ==
    IF i > nrv THEN FALSE
    ELSE IF remote_value_has_group_address(i, group_address) THEN TRUE
    ELSE AnyFrom(i + 1, group_address)

\* A faulty query that asks the first remote value only.
has_group_address_first_only(group_address) ==
    nrv > 0 /\ remote_value_has_group_address(1, group_address)

has_group_address(group_address) == AnyFrom(1, group_address)

HasGroupAddress(group_address) ==
    /\ lastCall' = Call("has_group_address", NoCallback, group_address,
                        has_group_address(group_address), <<>>)
    /\ UNCHANGED <<value, lastTg, calls, cbVars, fanVars, syncVars, classVars,
                   auxVars>>

\* The calls a loop over _iter_remote_values makes, in order.
StateUpdaterCalls(op) == [i \in 1..nrv |-> [rv |-> i, op |-> op]]

\* A faulty fan-out that walks the remote values backwards.
register_state_updater_reversed ==
    [i \in 1..nrv |-> [rv |-> nrv + 1 - i, op |-> "register_state_updater"]]

register_state_updater == StateUpdaterCalls("register_state_updater")

unregister_state_updater == StateUpdaterCalls("unregister_state_updater")

RegisterStateUpdater ==
    /\ lastCall' = Call("register_state_updater", NoCallback, 0, FALSE,
                        register_state_updater)
    /\ UNCHANGED <<value, lastTg, calls, cbVars, fanVars, syncVars, classVars,
                   auxVars>>

UnregisterStateUpdater ==
    /\ lastCall' = Call("unregister_state_updater", NoCallback, 0, FALSE,
                        unregister_state_updater)
    /\ UNCHANGED <<value, lastTg, calls, cbVars, fanVars, syncVars, classVars,
                   auxVars>>

\* -------------------------------------------------------- background tasks
\* A faulty start that spawns a polling task nothing removes.
async_start_tasks_spawning(running) == running \cup {"poll"}

\* The running background tasks after each call: the base device starts
\* none and has none to remove.
async_start_tasks(running) == running

async_remove_tasks(running) == running

AsyncStartTasks ==
    /\ bgTasks' = async_start_tasks(bgTasks)
    /\ lastCall' = Call("async_start_tasks", NoCallback, 0, FALSE, <<>>)
    /\ UNCHANGED <<value, lastTg, calls, cbVars, fanVars, syncVars, classVars,
                   regVars, otherVars>>

AsyncRemoveTasks ==
    /\ bgTasks' = async_remove_tasks(bgTasks)
    /\ lastCall' = Call("async_remove_tasks", NoCallback, 0, FALSE, <<>>)
    /\ UNCHANGED <<value, lastTg, calls, cbVars, fanVars, syncVars, classVars,
                   regVars, otherVars>>

\* ------------------------------------------------------------ second device
Xknxs == {"xknx", "xknx2"}

\* A second device is constructed.
ConstructOther(x, n, device_updated_cb) ==
    /\ other' = [xknx |-> x, name |-> n,
                 device_updated_cbs |-> __init__(device_updated_cb)]
    /\ otherNet' = [cb \in Callbacks |-> Count(__init__(device_updated_cb), cb)]
    /\ UNCHANGED <<cbVars, fanVars, syncVars, procVars, classVars, regVars, bgTasks>>

OtherRegister(cb) ==
    /\ other # NoDevice
    /\ Len(other.device_updated_cbs) < MaxOtherCbs
    /\ other' = [other EXCEPT
                    !.device_updated_cbs = register_device_updated_cb(@, cb)]
    /\ otherNet' = [otherNet EXCEPT ![cb] = @ + 1]
    /\ UNCHANGED <<cbVars, fanVars, syncVars, procVars, classVars, regVars, bgTasks>>

OtherUnregister(cb) ==
    /\ other # NoDevice
    /\ other' = [other EXCEPT
                    !.device_updated_cbs = unregister_device_updated_cb(@, cb)]
    /\ otherNet' = [otherNet EXCEPT
                    ![cb] = IF cb \in Range(other.device_updated_cbs) THEN @ - 1 ELSE @]
    /\ UNCHANGED <<cbVars, fanVars, syncVars, procVars, classVars, regVars, bgTasks>>

\* self.__dict__ of the device.
self ==
    [xknx |-> xknx, name |-> name, device_updated_cbs |-> device_updated_cbs]

\* == of two dicts: the same keys, and equal values under each key (lists
\* are equal when they have the same items in the same order).
DictEq(a, b) == DOMAIN a = DOMAIN b /\ \A k \in DOMAIN a : a[k] = b[k]

\* A faulty equality that takes the callback lists as sets.
eq_ignoring_callback_order(a, b) ==
    /\ a.xknx = b.xknx
    /\ a.name = b.name
    /\ Range(a.device_updated_cbs) = Range(b.device_updated_cbs)

__eq__(a, b) == DictEq(a, b)

Next ==
    \/ \E cb \in Callbacks : Register(cb)
    \/ \E cb \in Callbacks : Unregister(cb)
    \/ AfterUpdate
    \/ TaskReturns
    \/ TaskRaises
    \/ TaskSuspends
    \/ \E t \in 1..Len(tasks) : IoComplete(t)
    \/ GatherDoneCallback
    \/ AfterUpdateResume
    \/ \E w \in BOOLEAN : Sync(w)
    \/ ReadStateReturns
    \/ ReadStateRaises
    \/ \E tg \in Telegrams : Process(tg)
    \/ \E a \in AddressQueries : HasGroupAddress(a)
    \/ RegisterStateUpdater
    \/ UnregisterStateUpdater
    \/ AsyncStartTasks
    \/ AsyncRemoveTasks

Spec == Init /\ [][Next]_vars

\* The fan-out alone: a base-class device, its callback list and after_update.
FanoutInit == Init /\ overrides = {} /\ nrv = 0

FanoutNext ==
    \/ \E cb \in Callbacks : Register(cb)
    \/ \E cb \in Callbacks : Unregister(cb)
    \/ AfterUpdate
    \/ TaskReturns
    \/ TaskRaises
    \/ TaskSuspends
    \/ \E t \in 1..Len(tasks) : IoComplete(t)
    \/ GatherDoneCallback
    \/ AfterUpdateResume

FanoutSpec == FanoutInit /\ [][FanoutNext]_vars

\* sync alone: a device with 0..MaxRemoteValues remote values.
SyncInit == Init /\ overrides = {}

SyncNext ==
    \/ \E cb \in Callbacks : Register(cb)
    \/ \E cb \in Callbacks : Unregister(cb)
    \/ \E w \in BOOLEAN : Sync(w)
    \/ ReadStateReturns
    \/ ReadStateRaises

SyncSpec == SyncInit /\ [][SyncNext]_vars

\* Telegram routing: a device without remote values, with or without its
\* own process_group_write, and the fan-out that handler starts.
ProcessInit == Init /\ nrv = 0

ProcessNext ==
    \/ \E cb \in Callbacks : Register(cb)
    \/ \E cb \in Callbacks : Unregister(cb)
    \/ \E tg \in Telegrams : Process(tg)
    \/ TaskReturns
    \/ TaskRaises
    \/ TaskSuspends
    \/ \E t \in 1..Len(tasks) : IoComplete(t)
    \/ GatherDoneCallback
    \/ AfterUpdateResume

ProcessSpec == ProcessInit /\ [][ProcessNext]_vars

\* The base-class device: everything but the fan-out, which nothing of the
\* base class starts by itself.
BaseInit == Init /\ overrides = {}

BaseNext ==
    \/ \E cb \in Callbacks : Register(cb)
    \/ \E cb \in Callbacks : Unregister(cb)
    \/ \E w \in BOOLEAN : Sync(w)
    \/ ReadStateReturns
    \/ ReadStateRaises
    \/ \E tg \in Telegrams : Process(tg)
    \/ \E a \in AddressQueries : HasGroupAddress(a)
    \/ RegisterStateUpdater
    \/ UnregisterStateUpdater
    \/ AsyncStartTasks
    \/ AsyncRemoveTasks

BaseSpec == BaseInit /\ [][BaseNext]_vars

\* Two devices and their callback lists.
PairInit == Init /\ overrides = {} /\ nrv = 0

PairNext ==
    \/ \E cb \in Callbacks : Register(cb)
    \/ \E cb \in Callbacks : Unregister(cb)
    \/ \E x \in Xknxs, n \in Names, cb \in {NoCallback} \cup Callbacks :
            ConstructOther(x, n, cb)
    \/ \E cb \in Callbacks : OtherRegister(cb)
    \/ \E cb \in Callbacks : OtherUnregister(cb)

PairSpec == PairInit /\ [][PairNext]_vars

\* The registry alone: lookups by string id and by numeric id.
RegistryInit == Init /\ overrides = {} /\ nrv = 0 /\ device_updated_cbs = <<>>

RegistryNext ==
    \/ \E q \in ValueTypeQueries : ResolveByValueType(q)
    \/ \E m \in MainQueries, u \in SubQueries : ResolveByNumericId(m, u)

RegistrySpec == RegistryInit /\ [][RegistryNext]_vars

\* ------------------------------------------------------------------ claims
\* The fan-out is over and nothing of it can run any more.
Quiescent ==
    /\ pc = "idle"
    /\ result = "returned"
    /\ ready = <<>>
    /\ \A t \in 1..Len(tasks) : tasks[t].st # "suspended"

Tg(a, kind, b) == [address |-> a, payload |-> [kind |-> kind, value |-> b]]

\* C1: no exception raised by a callback escapes after_update: whenever
\* after_update has ended, it has returned normally, whichever callbacks
\* raised (in their call or in their coroutine).
C1_NoExceptionEscapes ==
    /\ result \in {"none", "pending", "returned"}
    /\ (pc = "idle" /\ (raisedAt > 0 \/ outer.st = "exception")) => result = "returned"

\* C1 witness: after_update has returned although a callback coroutine raised.
C1_Witness ==
    /\ pc = "idle"
    /\ result = "returned"
    /\ outer.st = "exception"
    /\ FailedTasks # {}

\* C2 (as claimed): once the fan-out is over and the event loop has nothing
\* left to run, every registered callback other than the one that raised
\* has been started and has run to its end.
C2_SiblingsComplete ==
    Quiescent =>
        \A i \in 1..Len(snapshot) :
            i # raisedAt => (i <= Len(tasks) /\ Finished(tasks[i]))

\* C3 (as claimed): when after_update returns, no task of the fan-out is
\* still running or waiting to start.
C3_AwaitedAsSet ==
    (pc = "idle" /\ result = "returned") => pendingAtReturn = 0

\* C4 (as claimed): every failure of a callback in one after_update is
\* logged: k failures leave k log records.
C4_EveryFailureLogged ==
    Quiescent =>
        log = Cardinality(FailedTasks) + (IF raisedAt > 0 THEN 1 ELSE 0)

\* C5 (as claimed): when sync has ended, read_state was issued on every
\* enumerated remote value, also on those after one whose read raised.
C5_SyncContinuesAfterFailure ==
    syncResult \in {"returned", "raised"} =>
        \A i \in 1..nrv : \E j \in 1..Len(reads) : reads[j].rv = i

\* C6 (as claimed): sync reads the remote values one at a time, in
\* enumeration order, each with the wait_for_result passed to sync, and
\* when it has ended each remote value was read exactly once.
C6_SyncOneByOne ==
    /\ Cardinality(inflight) <= 1
    /\ \A j \in 1..Len(reads) :
        reads[j] = [rv |-> j, wait_for_result |-> syncArg]
    /\ inflight \subseteq {Len(reads)}
    /\ syncResult \in {"returned", "raised"} => Len(reads) = nrv

\* C7: process routes by payload variant: a write invokes the group-write
\* handler once, a response the group-response handler and through it the
\* group-write handler once, a read only the group-read handler, any other
\* variant no handler.
C7_RoutesByVariant ==
    lastTg # NoTelegram =>
        calls =
            CASE lastTg.payload.kind = "GroupValueWrite" -> <<"process_group_write">>
              [] lastTg.payload.kind = "GroupValueResponse" ->
                    <<"process_group_response", "process_group_write">>
              [] lastTg.payload.kind = "GroupValueRead" -> <<"process_group_read">>
              [] OTHER -> <<>>

\* C7 witness: a response was processed and reached the group-write handler.
C7_Witness ==
    /\ lastTg.payload.kind = "GroupValueResponse"
    /\ calls = <<"process_group_response", "process_group_write">>

\* C8: on a device that overrides only the group-write handler, a response
\* does to the device what the write with the same address and payload
\* does: the same state afterwards and the same after_update, and that
\* state holds the payload at the address.
C8_ResponseLikeWrite ==
    overrides = {"process_group_write"} =>
        /\ \A a \in GroupAddresses, b \in Bytes :
            /\ ProcessOutcome(Tg(a, "GroupValueResponse", b))
                    = ProcessOutcome(Tg(a, "GroupValueWrite", b))
            /\ ProcessOutcome(Tg(a, "GroupValueResponse", b)).notify
            /\ ProcessOutcome(Tg(a, "GroupValueResponse", b)).value[a] = b
        /\ lastTg.payload.kind \in {"GroupValueWrite", "GroupValueResponse"} =>
            /\ value[lastTg.address] = lastTg.payload.value
            /\ result # "none"

\* C8 witness: a response updated the device and started the fan-out.
C8_Witness ==
    /\ overrides = {"process_group_write"}
    /\ lastTg.payload.kind = "GroupValueResponse"
    /\ value[lastTg.address] = lastTg.payload.value
    /\ pc = "gather"
    /\ tasks # <<>>

\* C9: a read processed by a device that does not override the group-read
\* handler changes nothing: the device state, the callback list and the
\* remote values stay as they are, no read_state is issued and no update
\* callback runs.
C9_ReadChangesNothing ==
    /\ [](\A a \in GroupAddresses :
            ProcessOutcome(Tg(a, "GroupValueRead", NoValue))
                = [value |-> value, notify |-> FALSE])
    /\ [][(lastTg' # lastTg /\ lastTg'.payload.kind = "GroupValueRead") =>
            /\ UNCHANGED <<value, device_updated_cbs, overrides, nrv>>
            /\ UNCHANGED <<pc, snapshot, raisedAt, tasks, ready, outer, log, result>>
            /\ inflight' = {}
            /\ reads' = <<>>]_vars

\* C9 witness: a read was processed by a device whose group-write handler
\* would have changed the state and run the registered callbacks.
C9_Witness ==
    /\ lastTg.payload.kind = "GroupValueRead"
    /\ calls = <<"process_group_read">>
    /\ overrides = {"process_group_write"}
    /\ device_updated_cbs # <<>>
    /\ \E a \in GroupAddresses : value[a] # NoValue

\* C10 (as claimed): on every reachable list, unregistering cb twice in a
\* row leaves the list that unregistering it once leaves.
C10_UnregisterIdempotent ==
    \A cb \in Callbacks :
        unregister_device_updated_cb(
            unregister_device_updated_cb(device_updated_cbs, cb), cb)
            = unregister_device_updated_cb(device_updated_cbs, cb)

\* C10 (amended): register puts cb at the end and keeps what was there,
\* also when cb is already present; unregister drops the first occurrence
\* of cb only, so a second unregister leaves the list of the first exactly
\* when the list holds cb at most once, and drops one more occurrence
\* otherwise.
C10_ListDiscipline ==
    \A cb \in Callbacks :
        LET cbs == device_updated_cbs
            reg == register_device_updated_cb(cbs, cb)
            once == unregister_device_updated_cb(cbs, cb)
            twice == unregister_device_updated_cb(once, cb)
        IN  /\ Len(reg) = Len(cbs) + 1
            /\ reg[Len(reg)] = cb
            /\ SubSeq(reg, 1, Len(cbs)) = cbs
            /\ Count(reg, cb) = Count(cbs, cb) + 1
            /\ Count(cbs, cb) <= 1 => twice = once
            /\ Count(cbs, cb) >= 1 =>
                /\ once = RemoveAt(cbs, FirstIndex(cbs, cb))
                /\ Count(once, cb) = Count(cbs, cb) - 1
            /\ Count(cbs, cb) >= 2 => Len(twice) = Len(cbs) - 2
            /\ Count(cbs, cb) = 0 => once = cbs

\* C10 witness: a list that holds the same callback twice.
C10_Witness ==
    \E cb \in Callbacks : Count(device_updated_cbs, cb) >= 2

\* C11: both lookups give back the registered transcoder itself: for every
\* registered transcoder t, the lookup by t's string id and the lookup by
\* t's (main, sub) return t, with the unit registered for t; "temperature"
\* and (9, 1) give the transcoder with unit "°C".
C11_LookupsRoundTrip ==
    /\ \A t \in Registered :
        /\ parse_transcoder(t.value_type) = t
        /\ transcoder_by_dpt(t.main, t.sub) = t
        /\ transcoder_by_dpt(t.main, t.sub).unit = t.unit
    /\ byValueType.result # NotFound =>
        /\ byValueType.result \in Registered
        /\ byValueType.query = <<byValueType.result.value_type>>
        /\ transcoder_by_dpt(byValueType.result.main, byValueType.result.sub)
                = byValueType.result
    /\ byNumericId.result # NotFound =>
        /\ byNumericId.result \in Registered
        /\ byNumericId.query = <<byNumericId.result.main, byNumericId.result.sub>>
        /\ parse_transcoder(byNumericId.result.value_type) = byNumericId.result
    /\ (byValueType.query = <<"temperature">> /\ byNumericId.query = <<9, 1>>) =>
        /\ byValueType.result = byNumericId.result
        /\ byValueType.result.unit = "°C"

\* C11 witness: "temperature" and (9, 1) were looked up and gave the same
\* transcoder.
C11_Witness ==
    /\ byValueType.query = <<"temperature">>
    /\ byNumericId.query = <<9, 1>>
    /\ byValueType.result = byNumericId.result
    /\ byValueType.result.cls = "DPTTemperature"

DeviceState ==
    <<device_updated_cbs, net, value, overrides, nrv, rvAddrs, bgTasks,
      fanVars, syncVars>>

\* C13: has_group_address(addr) is true exactly when some enumerated
\* remote value claims addr, false for every address on a device without
\* remote values, and the call changes nothing of the device.
C13_HasGroupAddress ==
    /\ [](/\ \A a \in AddressQueries :
                has_group_address(a) <=> (\E i \in 1..nrv : a \in rvAddrs[i])
          /\ nrv = 0 => \A a \in AddressQueries : ~has_group_address(a)
          /\ lastCall.op = "has_group_address" =>
                (lastCall.returned <=> (\E i \in 1..nrv : lastCall.addr \in rvAddrs[i])))
    /\ [][(lastCall' # lastCall /\ lastCall'.op = "has_group_address") =>
            UNCHANGED DeviceState]_vars

\* C13 witness: the query returned true for an address that the second
\* remote value claims and the first does not.
C13_Witness ==
    /\ lastCall.op = "has_group_address"
    /\ lastCall.returned
    /\ nrv >= 2
    /\ lastCall.addr \notin rvAddrs[1]
    /\ lastCall.addr \in rvAddrs[2]

\* C14: register_state_updater and unregister_state_updater call the
\* operation of the same name once on every enumerated remote value, in
\* enumeration order, and change nothing of the device.
C14_StateUpdaterFanOut ==
    /\ [](lastCall.op \in {"register_state_updater", "unregister_state_updater"} =>
            /\ Len(lastCall.trace) = nrv
            /\ \A i \in 1..nrv :
                /\ lastCall.trace[i] = [rv |-> i, op |-> lastCall.op]
                /\ Cardinality({j \in 1..Len(lastCall.trace) : lastCall.trace[j].rv = i}) = 1)
    /\ [][(lastCall' # lastCall
            /\ lastCall'.op \in {"register_state_updater", "unregister_state_updater"}) =>
            UNCHANGED DeviceState]_vars

\* C14 witness: register_state_updater ran on a device with two remote
\* values and a registered callback.
C14_Witness ==
    /\ lastCall.op = "register_state_updater"
    /\ nrv >= 2
    /\ Len(lastCall.trace) = nrv
    /\ device_updated_cbs # <<>>

C17_NoTaskOutlives ==
    /\ [](/\ bgTasks = {}
          /\ async_remove_tasks(async_start_tasks(bgTasks)) = {}
          /\ lastCall.op = "async_remove_tasks" => bgTasks = {})
    /\ [][(lastCall' # lastCall
            /\ lastCall'.op \in {"async_start_tasks", "async_remove_tasks"}) =>
            UNCHANGED DeviceState]_vars

\* C17 witness: async_remove_tasks was called on a device in use.
C17_Witness ==
    /\ lastCall.op = "async_remove_tasks"
    /\ bgTasks = {}
    /\ device_updated_cbs # <<>>
    /\ nrv > 0

\* C16: two devices are equal exactly when every attribute is equal, the
\* callback list item by item: the same name and collaborators with other
\* callbacks, or with the same callbacks in another order, are unequal;
\* registering the same callback on two equal devices keeps them equal;
\* equality is reflexive and symmetric.
C16_StructuralEquality ==
    other # NoDevice =>
        LET mine == self.device_updated_cbs
            theirs == other.device_updated_cbs
            sameRest == self.xknx = other.xknx /\ self.name = other.name
        IN  /\ __eq__(self, other) <=>
                /\ sameRest
                /\ Len(mine) = Len(theirs)
                /\ \A i \in 1..Len(mine) : mine[i] = theirs[i]
            /\ (sameRest /\ Range(mine) # Range(theirs)) => ~__eq__(self, other)
            /\ (sameRest /\ Range(mine) = Range(theirs) /\ mine # theirs) =>
                    ~__eq__(self, other)
            /\ __eq__(self, other) =>
                \A cb \in Callbacks :
                    __eq__([self EXCEPT !.device_updated_cbs =
                                register_device_updated_cb(@, cb)],
                           [other EXCEPT !.device_updated_cbs =
                                register_device_updated_cb(@, cb)])
            /\ __eq__(self, self)
            /\ __eq__(other, other)
            /\ __eq__(self, other) <=> __eq__(other, self)

\* C16 witness: two devices with the same name and collaborators and the
\* same two callbacks in opposite order, which are unequal.
C16_Witness ==
    /\ other # NoDevice
    /\ self.xknx = other.xknx
    /\ self.name = other.name
    /\ device_updated_cbs = <<"cb1", "cb2">>
    /\ other.device_updated_cbs = <<"cb2", "cb1">>
    /\ ~__eq__(self, other)

\* The list u is the list l without the first occurrence of cb, the other
\* items in their order; l itself when cb is not in l.
WithoutFirst(l, cb, u) ==
    IF \E i \in 1..Len(l) : l[i] = cb
    THEN \E i \in 1..Len(l) :
            /\ l[i] = cb
            /\ \A j \in 1..(i - 1) : l[j] # cb
            /\ Len(u) = Len(l) - 1
            /\ \A k \in 1..Len(u) : u[k] = IF k < i THEN l[k] ELSE l[k + 1]
    ELSE u = l

\* C18 (as claimed): a fan-out that has started has invoked every callback
\* of the list as it was when after_update started, once per occurrence
\* and in list order, and the tasks it runs are those of that list,
\* whatever was registered or unregistered since.
C18_InvokedOncePerOccurrence ==
    result # "none" =>
        /\ Invoked = snapshot
        /\ raisedAt = 0 => [i \in 1..Len(tasks) |-> tasks[i].cb] = snapshot

\* C19: unregister drops the first occurrence of cb and nothing else, and
\* leaves a list without cb as it is; so on both devices the occurrences
\* of cb in the list are the register calls for cb minus the unregister
\* calls for cb made while cb was in the list.
C19_FirstOccurrenceAndCount ==
    \A cb \in Callbacks :
        /\ WithoutFirst(device_updated_cbs, cb,
                        unregister_device_updated_cb(device_updated_cbs, cb))
        /\ WithoutFirst(other.device_updated_cbs, cb,
                        unregister_device_updated_cb(other.device_updated_cbs, cb))
        /\ Count(device_updated_cbs, cb) = net[cb]
        /\ Count(other.device_updated_cbs, cb) = otherNet[cb]

\* C19 witness: a list that holds a callback before and after another one,
\* built by register and unregister calls.
C19_Witness ==
    /\ other.device_updated_cbs = <<"cb1", "cb2", "cb1">>
    /\ otherNet["cb1"] = 2
    /\ device_updated_cbs = <<"cb2">>
    /\ net["cb2"] = 1

\* C20: a new device has no callback when none is given and exactly the
\* given one otherwise; and process, sync, has_group_address,
\* register_state_updater and unregister_state_updater of the base device
\* leave the callback list as it is and never start a fan-out.
C20_ConstructionAndFrame ==
    /\ [](/\ lastCall.op = "__init__" =>
                device_updated_cbs =
                    IF lastCall.cb = NoCallback THEN <<>> ELSE <<lastCall.cb>>
          /\ __init__(NoCallback) = <<>>
          /\ \A cb \in Callbacks : __init__(cb) = <<cb>>
          /\ result = "none"
          /\ snapshot = <<>>
          /\ tasks = <<>>
          /\ ready = <<>>)
    /\ [][(\/ lastTg' # lastTg
           \/ reads' # reads
           \/ inflight' # inflight
           \/ syncResult' # syncResult
           \/ /\ lastCall' # lastCall
              /\ lastCall'.op \in {"has_group_address", "register_state_updater",
                                   "unregister_state_updater"}) =>
            /\ UNCHANGED <<device_updated_cbs, net>>
            /\ UNCHANGED <<snapshot, raisedAt, tasks, ready, outer, log, result>>]_vars

\* C20 witness: a device constructed with a callback holds exactly that
\* callback.
C20_Witness ==
    /\ lastCall.op = "__init__"
    /\ lastCall.cb = "cb1"
    /\ device_updated_cbs = <<"cb1">>
    /\ result = "none"
====
